---------------------------- MODULE Spec2Model ----------------------------
(***************************************************************************)
(* Model of the retrieval core of RAG_Toon: FAISSVectorStore               *)
(* (src/src/utils/vectorStore.ts), EmbeddingGenerator (src/unnamed/        *)
(* part_006), Reranker (src/unnamed/part_007) and RAGSystem                *)
(* (src/src/utils/ragSystem.ts).                                           *)
(*                                                                         *)
(* JavaScript runs every handler to completion between two awaits, so each *)
(* action below is one synchronous segment of a method: the part of an     *)
(* async method up to its await, or its continuation after the awaited     *)
(* remote call has settled.  Array ordinals are 1-based here (0-based in   *)
(* the source).  Numbers are exact; floating-point rounding is not         *)
(* modelled.                                                               *)
(***************************************************************************)
EXTENDS Integers, Sequences, FiniteSets, TLC

VARIABLES
    index,      \* FAISSVectorStore.index: the vectors held by the IndexFlatL2
    documents,  \* FAISSVectorStore.documents: the parallel document list
    config,     \* RAGSystem.config: [topK, rerankTopK]
    fileIndex,  \* the artifact at `filepath` (index.write / FaissStore.read)
    fileDocs,   \* the artifact at `filepath + '.docs.json'`
    addCall,    \* the addDocuments call in flight (awaiting its embeddings)
    qryCall,    \* the search / query call in flight
    res,        \* outcome of the operation that completed last
    chunker     \* the chunkText call in progress (its loop variables)

vars == <<index, documents, config, fileIndex, fileDocs, addCall, qryCall, res, chunker>>

store == <<index, documents>>

(***************************************************************************)
(* Bounds of the model.                                                    *)
(***************************************************************************)
MaxDocs == 2        \* add is not started once the store holds this many documents
MaxCands == 3       \* the longest candidate list handed to the Reranker
MaxText == 5        \* the longest text handed to chunkText
MaxSize == 3        \* the largest chunkSize and overlap handed to chunkText
MaxWindows == 6     \* chunkText is followed for this many windows
MaxPara == 4        \* the longest text handed to the sentence and paragraph chunkers
MaxBatch == 2       \* the longest batch one of two overlapping add calls is given

(***************************************************************************)
(* Texts.  A text is a sequence of characters; " " and "\n" are whitespace. *)
(***************************************************************************)
Sky == <<"s">>
Sea == <<"w">>
QSky == <<" ", "s", "?">>
Empty == <<>>
Blank == <<" ">>

Whitespace == {" ", "\n"}

RECURSIVE TrimLeft(_)
TrimLeft(t) ==
    IF t = <<>> THEN t
    ELSE IF Head(t) \in Whitespace THEN TrimLeft(Tail(t)) ELSE t

RECURSIVE TrimRight(_)
TrimRight(t) ==
    IF t = <<>> THEN t
    ELSE IF t[Len(t)] \in Whitespace THEN TrimRight(SubSeq(t, 1, Len(t) - 1)) ELSE t

\* String.prototype.trim
Trim(t) == TrimRight(TrimLeft(t))

\* `!text || text.trim().length === 0`
IsBlank(t) == Len(t) = 0 \/ Len(Trim(t)) = 0

(***************************************************************************)
(* Embedding vectors.  A vector of the source is a number[] of 768         *)
(* entries; here it is its length together with its position in a plane,   *)
(* which is what validateEmbedding, the L2 search and the cosine score     *)
(* read.                                                                   *)
(***************************************************************************)
Dimension == 768
StoreDimension == 768

Vec(n, p) == [len |-> n, pt |-> p]

\* The remote embedding model: a pure function of the (trimmed) text.
ModelPoint(t) ==
    CASE t = Sky -> <<4, 3>>
      [] t = Sea -> <<10, 1>>
      [] t = <<"s", "?">> -> <<5, 0>>
      [] OTHER -> <<0, 0>>

embedContent(t) == Vec(Dimension, ModelPoint(t))

\* EmbeddingGenerator.validateEmbedding
validateEmbedding(e) == e.len = Dimension


(***************************************************************************)
(* Documents (src/src/types.ts).  metadata is optional and holds any       *)
(* JavaScript value: strings, numbers (NaN among them) and null are        *)
(* modelled.                                                               *)
(***************************************************************************)
Str(x) == [t |-> "string", s |-> x]
Num(x) == [t |-> "number", n |-> x]
Null == [t |-> "null"]
NaN == [t |-> "NaN"]
NoMetadata == [absent |-> TRUE]

Document(i, c, m) == [id |-> i, content |-> c, metadata |-> m]

DocSky == Document("a.pdf-chunk-0", Sky,
                   [source |-> Str("a.pdf"), chunkIndex |-> Num(0), creationDate |-> Null])
DocSea == Document("sea-1", Sea, NoMetadata)
DocNaN == Document("sea-2", Sea, [score |-> NaN])
DocQSky == Document("sky-q", QSky, NoMetadata)
\* a document whose content is whitespace only
DocBlank == Document("blank-1", Blank, NoMetadata)

\* documents[idx] for an idx outside the array
Undefined == [undefined |-> TRUE]

(***************************************************************************)
(* Persistence: JSON.stringify / JSON.parse of the document list, and      *)
(* index.write / FaissStore.read of the index.                             *)
(***************************************************************************)
\* no file, or one that cannot be read or parsed
Missing == [file |-> "missing"]
File(d) == [file |-> "ok", data |-> d]

\* JSON.stringify of one value: NaN has no JSON form and is written as null
JsonValue(v) == IF v = NaN THEN Null ELSE v

\* JSON.stringify of one Document: a property that is undefined is left out
JsonObject(d) ==
    IF d.metadata = NoMetadata
    THEN [id |-> d.id, content |-> d.content]
    ELSE [id |-> d.id, content |-> d.content,
          metadata |-> [key \in DOMAIN d.metadata |-> JsonValue(d.metadata[key])]]

\* JSON.stringify(this.documents, null, 2)
JsonStringify(ds) == [i \in 1..Len(ds) |-> JsonObject(ds[i])]

\* JSON.parse of one object of the list
ParseObject(o) ==
    Document(o.id, o.content,
             IF "metadata" \in DOMAIN o THEN o.metadata ELSE NoMetadata)

\* JSON.parse(fs.readFileSync(filepath + '.docs.json', 'utf-8'))
JsonParse(j) == [i \in 1..Len(j) |-> ParseObject(j[i])]

\* index.write(filepath): the file holds the vectors in ordinal order
IndexWrite(idx) == File(idx)

\* FaissStore.read(filepath)
IndexRead(f) == f.data


(***************************************************************************)
(* The remote embedding call (EmbeddingGenerator.generateEmbedding).       *)
(* `out` is what the remote service does with this call.                   *)
(***************************************************************************)
RemoteOutcomes == {"ok", "dim", "malformed", "fail"}

Resolved(v) == [ok |-> TRUE, value |-> v]
Rejected(e) == [ok |-> FALSE, error |-> e]

generateEmbedding(text, out) ==
    IF IsBlank(text) THEN Rejected("Text cannot be empty")
    ELSE CASE out = "ok" -> Resolved(embedContent(Trim(text)))
           [] out = "dim" -> Resolved(Vec(Dimension + 1, ModelPoint(Trim(text))))
           [] out = "double" -> Resolved(Vec(2 * Dimension, ModelPoint(Trim(text))))
           [] out = "malformed" -> Rejected("Invalid embedding response format")
           [] OTHER -> Rejected("remote call failed")

\* the number of remote calls generateEmbedding issues for `text`
RemoteCalls(text) == IF IsBlank(text) THEN 0 ELSE 1

\* a Promise.all that hands back the values in the order the promises settled
PromiseAllByCompletion(each) ==
    LET n == Len(each)
        bad == {i \in 1..n : ~each[i].ok}
        orders == {p \in [1..n -> 1..n] : \A a, b \in 1..n : p[a] = p[b] => a = b}
    IN  IF bad # {} THEN {Rejected(each[i].error) : i \in bad}
        ELSE {Resolved([i \in 1..n |-> each[p[i]].value]) : p \in orders}

\* a Promise.all that resolves with the values of the promises that fulfilled
PromiseAllSkipsRejected(each) ==
    LET RECURSIVE Kept(_)
        Kept(i) == IF i = 0 THEN <<>>
                   ELSE IF each[i].ok THEN Append(Kept(i - 1), each[i].value)
                   ELSE Kept(i - 1)
    IN  {Resolved(Kept(Len(each)))}

\* Promise.all over settled promises: the values in the order of the promises,
\* or the error of one that rejected (which one is a matter of timing)
PromiseAll(each) ==
    LET bad == {i \in 1..Len(each) : ~each[i].ok}
    IN  IF bad # {} THEN {Rejected(each[i].error) : i \in bad}
        ELSE {Resolved([i \in 1..Len(each) |-> each[i].value])}

\* what the remote service does with each of n calls
RemoteRuns(n) == [1..n -> RemoteOutcomes]

\* EmbeddingGenerator.generateEmbeddings: every way the call can settle
generateEmbeddings(texts) ==
    IF Len(texts) = 0 THEN {Rejected("Texts array cannot be empty")}
    ELSE UNION {PromiseAll([i \in 1..Len(texts) |-> generateEmbedding(texts[i], outs[i])]) :
                   outs \in RemoteRuns(Len(texts))}

(***************************************************************************)
(* IndexFlatL2 of faiss-node, as FAISSVectorStore uses it.                 *)
(***************************************************************************)
\* squared L2 distance (the order of the distances is the order of their squares)
SqDist(a, b) ==
    (a.pt[1] - b.pt[1]) * (a.pt[1] - b.pt[1]) + (a.pt[2] - b.pt[2]) * (a.pt[2] - b.pt[2])

Injective(f) == \A i, j \in DOMAIN f : f[i] = f[j] => i = j

\* index.search(queryEmbedding, k): the labels of the k nearest vectors, nearest
\* first; the order among vectors at equal distance is the library's choice
IndexSearch(idx, qv, k) ==
    {l \in [1..k -> 1..Len(idx)] :
        /\ Injective(l)
        /\ \A i \in 1..k : \A j \in 1..k :
              i < j => SqDist(idx[l[i]], qv) <= SqDist(idx[l[j]], qv)
        /\ \A i \in 1..k : \A o \in 1..Len(idx) :
              (\A j \in 1..k : l[j] # o) => SqDist(idx[l[i]], qv) <= SqDist(idx[o], qv)}

\* index.search(x, k) for an array x of nq * d values: x is taken as nq query
\* vectors, and the labels of all of them are returned in one array
RECURSIVE SearchRows(_, _, _, _)
SearchRows(idx, qv, k, nq) ==
    IF nq = 0 THEN {<<>>}
    ELSE {a \o b : a \in SearchRows(idx, qv, k, nq - 1), b \in IndexSearch(idx, qv, k)}

Min(a, b) == IF a <= b THEN a ELSE b

(***************************************************************************)
(* Outcome of the operation that completed last.                           *)
(***************************************************************************)
Outcome(op, status, error, embedCalls, genCalls, value) ==
    [op |-> op, status |-> status, error |-> error,
     embedCalls |-> embedCalls, genCalls |-> genCalls, value |-> value]

None == [none |-> TRUE]

Idle == [pc |-> "idle"]


(***************************************************************************)
(* FAISSVectorStore.addDocuments and RAGSystem.indexDocuments.             *)
(***************************************************************************)
\* the batches tried: every sequence of distinct documents of D, the empty one
\* included
Batches(D) == {b \in UNION {[1..n -> D] : n \in 0..Cardinality(D)} : Injective(b)}

RECURSIVE SumCalls(_)
SumCalls(texts) ==
    IF texts = <<>> THEN 0 ELSE RemoteCalls(Head(texts)) + SumCalls(Tail(texts))

Contents(ds) == [i \in 1..Len(ds) |-> ds[i].content]

\* addDocuments without its own guard: an empty batch is handed to
\* generateEmbeddings like any other
addDocumentsUnguarded(ds) ==
    /\ addCall.pc = "idle"
    /\ Len(documents) + Len(ds) <= MaxDocs
    /\ Len(index) + Len(ds) <= MaxDocs
    /\ addCall' = [pc |-> "await", docs |-> ds,
                   embedCalls |-> SumCalls(Contents(ds))]
    /\ UNCHANGED <<index, documents, config, chunker, fileIndex, fileDocs, qryCall, res>>

\* addDocuments up to its await: the guard, then generateEmbeddings is called
addDocuments(ds) ==
    IF Len(ds) = 0
    THEN /\ res' = Outcome("add", "error", "Documents array cannot be empty", 0, 0, None)
         /\ UNCHANGED <<index, documents, config, chunker, fileIndex, fileDocs, addCall, qryCall>>
    ELSE /\ addCall.pc = "idle"
         /\ Len(documents) + Len(ds) <= MaxDocs
         /\ Len(index) + Len(ds) <= MaxDocs
         /\ addCall' = [pc |-> "await", docs |-> ds,
                        embedCalls |-> SumCalls(Contents(ds))]
         /\ UNCHANGED <<index, documents, config, chunker, fileIndex, fileDocs, qryCall, res>>

\* RAGSystem.indexDocuments
indexDocuments(ds) ==
    IF Len(ds) = 0
    THEN /\ res' = Outcome("index", "error", "No documents provided", 0, 0, None)
         /\ UNCHANGED <<index, documents, config, chunker, fileIndex, fileDocs, addCall, qryCall>>
    ELSE addDocuments(ds)

\* the first position whose embedding validateEmbedding rejects (0: none)
FirstInvalid(embeddings) ==
    LET bad == {i \in 1..Len(embeddings) : ~validateEmbedding(embeddings[i])}
    IN  IF bad = {} THEN 0 ELSE CHOOSE i \in bad : \A j \in bad : i <= j

\* s and t merged item by item, s first
RECURSIVE Interleave(_, _)
Interleave(s, t) ==
    IF s = <<>> THEN t
    ELSE IF t = <<>> THEN s
    ELSE <<Head(s), Head(t)>> \o Interleave(Tail(s), Tail(t))

\* an append loop whose items land between the items already stored
AppendInterleaved(embeddings, ds) ==
    [index |-> Interleave(index, embeddings),
     documents |-> Interleave(documents, ds),
     stop |-> FirstInvalid(embeddings)]

\* the loop of addDocuments: index.add and documents.push for every position
\* before the first invalid embedding
AppendLoop(embeddings, ds) ==
    LET stop == FirstInvalid(embeddings)
        n == IF stop = 0 THEN Len(embeddings) ELSE stop - 1
    IN  [index |-> index \o SubSeq(embeddings, 1, n),
         documents |-> documents \o SubSeq(ds, 1, n),
         stop |-> stop]

\* addDocuments after its await: generateEmbeddings has settled
addDocumentsResume ==
    /\ addCall.pc = "await"
    /\ Len(documents) + Len(addCall.docs) <= MaxDocs
    /\ Len(index) + Len(addCall.docs) <= MaxDocs
    /\ \E r \in generateEmbeddings(Contents(addCall.docs)) :
         IF ~r.ok
         THEN /\ res' = Outcome("add", "error", r.error, addCall.embedCalls, 0, None)
              /\ UNCHANGED <<index, documents>>
         ELSE LET a == AppendLoop(r.value, addCall.docs)
              IN  /\ index' = a.index
                  /\ documents' = a.documents
                  /\ res' = IF a.stop = 0
                            THEN Outcome("add", "ok", "", addCall.embedCalls, 0, None)
                            ELSE Outcome("add", "error", "Invalid embedding dimension at index",
                                         addCall.embedCalls, 0, [at |-> a.stop])
    /\ addCall' = Idle
    /\ UNCHANGED <<config, chunker, fileIndex, fileDocs, qryCall>>

(***************************************************************************)
(* FAISSVectorStore.clear, saveIndex, loadIndex.                           *)
(***************************************************************************)
\* a clear that also rejects the add calls that are waiting
clearCancelsAdd ==
    /\ index' = <<>>
    /\ documents' = <<>>
    /\ addCall' = [c \in DOMAIN addCall |->
                     IF addCall[c].pc = "await"
                     THEN [pc |-> "rejected", docs |-> addCall[c].docs]
                     ELSE addCall[c]]
    /\ res' = Outcome("clear", "ok", "", 0, 0, None)
    /\ UNCHANGED <<config, chunker, fileIndex, fileDocs, qryCall>>

clear ==
    /\ index' = <<>>
    /\ documents' = <<>>
    /\ res' = Outcome("clear", "ok", "", 0, 0, None)
    /\ UNCHANGED <<config, chunker, fileIndex, fileDocs, addCall, qryCall>>

\* saveIndex: index.write, then fs.writeFileSync of the document list; either
\* write can fail, and a write that fails leaves the old file
saveIndex ==
    \/ /\ fileIndex' = IndexWrite(index)
       /\ fileDocs' = File(JsonStringify(documents))
       /\ res' = Outcome("save", "ok", "", 0, 0, None)
       /\ UNCHANGED <<index, documents, config, chunker, addCall, qryCall>>
    \/ /\ res' = Outcome("save", "error", "index.write failed", 0, 0, None)
       /\ UNCHANGED <<index, documents, config, chunker, fileIndex, fileDocs, addCall, qryCall>>
    \/ /\ fileIndex' = IndexWrite(index)
       /\ res' = Outcome("save", "error", "writeFileSync failed", 0, 0, None)
       /\ UNCHANGED <<index, documents, config, chunker, fileDocs, addCall, qryCall>>

\* loadIndex: this.index is assigned before the document list is read and parsed
loadIndex ==
    IF fileIndex.file # "ok"
    THEN /\ res' = Outcome("load", "error", "FaissStore.read failed", 0, 0, None)
         /\ UNCHANGED <<index, documents, config, chunker, fileIndex, fileDocs, addCall, qryCall>>
    ELSE /\ index' = IndexRead(fileIndex)
         /\ IF fileDocs.file # "ok"
            THEN /\ res' = Outcome("load", "error", "reading the document list failed", 0, 0, None)
                 /\ UNCHANGED documents
            ELSE /\ documents' = JsonParse(fileDocs.data)
                 /\ res' = Outcome("load", "ok", "", 0, 0, None)
         /\ UNCHANGED <<config, chunker, fileIndex, fileDocs, addCall, qryCall>>


(***************************************************************************)
(* cosineSimilarity and Reranker.rerank.                                   *)
(***************************************************************************)
Dot(p, q) == p[1] * q[1] + p[2] * q[2]

SgnSq(x) == IF x >= 0 THEN x * x ELSE 0 - x * x

\* cosineSimilarity(a, b) for vectors of one length.  The score s is kept as the
\* fraction num/den = sign(s) * s^2, which orders scores as s does.
cosineSimilarity(a, b) ==
    IF Dot(a.pt, a.pt) = 0 \/ Dot(b.pt, b.pt) = 0
    THEN [num |-> 0, den |-> 1]
    ELSE [num |-> SgnSq(Dot(a.pt, b.pt)), den |-> Dot(a.pt, a.pt) * Dot(b.pt, b.pt)]

ScoreLess(s, t) == s.num * t.den < t.num * s.den

\* an insertion that puts an item before the items of equal score
RECURSIVE InsertDescBeforeTies(_, _)
InsertDescBeforeTies(sorted, x) ==
    IF sorted = <<>> THEN <<x>>
    ELSE IF ~ScoreLess(x.score, Head(sorted).score)
         THEN <<x>> \o sorted
         ELSE <<Head(sorted)>> \o InsertDescBeforeTies(Tail(sorted), x)

\* Array.prototype.sort((a, b) => b.score - a.score): stable, descending
RECURSIVE InsertDesc(_, _)
InsertDesc(sorted, x) ==
    IF sorted = <<>> THEN <<x>>
    ELSE IF ScoreLess(Head(sorted).score, x.score)
         THEN <<x>> \o sorted
         ELSE <<Head(sorted)>> \o InsertDesc(Tail(sorted), x)

RECURSIVE SortDesc(_)
SortDesc(items) ==
    IF items = <<>> THEN <<>>
    ELSE InsertDesc(SortDesc(SubSeq(items, 1, Len(items) - 1)), items[Len(items)])

\* Array.prototype.slice(0, e)
Slice(items, e) ==
    LET stop == IF e < 0 THEN (IF Len(items) + e < 0 THEN 0 ELSE Len(items) + e)
                ELSE Min(e, Len(items))
    IN  SubSeq(items, 1, stop)

\* rerank without its slice: every scored document is returned
RerankUnsliced(qEmb, ds, embeddings, topK) ==
    LET scoredDocs == [i \in 1..Len(ds) |->
                         [doc |-> ds[i], score |-> cosineSimilarity(qEmb, embeddings[i]),
                          originalIndex |-> i]]
        top == SortDesc(scoredDocs)
    IN  [i \in 1..Len(top) |-> top[i].doc]

\* rerank without its sort: the first topK documents as they came
RerankUnsorted(qEmb, ds, embeddings, topK) ==
    LET scoredDocs == [i \in 1..Len(ds) |->
                         [doc |-> ds[i], score |-> cosineSimilarity(qEmb, embeddings[i]),
                          originalIndex |-> i]]
        top == Slice(scoredDocs, topK)
    IN  [i \in 1..Len(top) |-> top[i].doc]

\* the scoring, sort and slice of rerank, given the embeddings
Rerank(qEmb, ds, embeddings, topK) ==
    LET scoredDocs == [i \in 1..Len(ds) |->
                         [doc |-> ds[i], score |-> cosineSimilarity(qEmb, embeddings[i]),
                          originalIndex |-> i]]
        top == Slice(SortDesc(scoredDocs), topK)
    IN  [i \in 1..Len(top) |-> top[i].doc]

\* the scoring, sort and slice of getTopDocuments, given the embeddings
TopScored(qEmb, ds, embeddings, topK) ==
    LET scoredDocs == [i \in 1..Len(ds) |->
                         [document |-> ds[i],
                          score |-> cosineSimilarity(qEmb, embeddings[i])]]
    IN  Slice(SortDesc(scoredDocs), topK)

\* `[Document ${idx + 1}]\n${doc.content}` for every reranked document
Context(ds) == [i \in 1..Len(ds) |-> [label |-> i, content |-> ds[i].content]]

\* RAGSystem.buildPrompt: the fixed template around the context and the question
buildPrompt(question, context) == [question |-> question, context |-> context]


(***************************************************************************)
(* FAISSVectorStore.search and RAGSystem.query.                            *)
(***************************************************************************)
Queries == {QSky, Blank}

\* the values of topK that direct callers of search pass
Ks == {1, 2}

GenerationOutcomes == {"ok", "fail"}

Answer == "answer"

\* search that tests the store for emptiness only after the query is embedded:
\* up to its await it has the guard on the query alone
searchEmbedsFirst(q, topK, op) ==
    IF IsBlank(q)
    THEN /\ res' = Outcome(op, "error", "Query cannot be empty", 0, 0, None)
         /\ UNCHANGED <<index, documents, config, chunker, fileIndex, fileDocs, addCall, qryCall>>
    ELSE /\ qryCall.pc = "idle"
         /\ qryCall' = [pc |-> "search", op |-> op, query |-> q, k |-> topK,
                        embedCalls |-> RemoteCalls(q)]
         /\ UNCHANGED <<index, documents, config, chunker, fileIndex, fileDocs, addCall, res>>

\* search up to its await: the two guards, then generateEmbedding(query) is called
search(q, topK, op) ==
    IF IsBlank(q)
    THEN /\ res' = Outcome(op, "error", "Query cannot be empty", 0, 0, None)
         /\ UNCHANGED <<index, documents, config, chunker, fileIndex, fileDocs, addCall, qryCall>>
    ELSE IF Len(documents) = 0
    THEN /\ res' = Outcome(op, "error", "Vector store is empty", 0, 0, None)
         /\ UNCHANGED <<index, documents, config, chunker, fileIndex, fileDocs, addCall, qryCall>>
    ELSE /\ qryCall.pc = "idle"
         /\ qryCall' = [pc |-> "search", op |-> op, query |-> q, k |-> topK,
                        embedCalls |-> RemoteCalls(q)]
         /\ UNCHANGED <<index, documents, config, chunker, fileIndex, fileDocs, addCall, res>>

\* RAGSystem.query up to its first await
query(question) == search(question, config.topK, "query")

\* a call in flight that answers an error with a response of its own
ThrowSwallowed(error) ==
    /\ res' = Outcome(qryCall.op, "ok", "", qryCall.embedCalls, 0,
                      [question |-> qryCall.query, answer |-> "", sources |-> <<>>])
    /\ qryCall' = Idle

\* a query in flight that answers an error by going on to the generation call
ThrowThenGenerate(error) ==
    /\ qryCall' = [pc |-> "generate", op |-> "query", query |-> qryCall.query,
                   nRetrieved |-> 0, reranked |-> <<>>,
                   prompt |-> buildPrompt(qryCall.query, Context(<<>>)),
                   embedCalls |-> qryCall.embedCalls]
    /\ UNCHANGED res

\* a call in flight ends with an error
Throw(error) ==
    /\ res' = Outcome(qryCall.op, "error", error, qryCall.embedCalls, 0, None)
    /\ qryCall' = Idle

\* query from the return of rerank to the call of the generation service
Generate(rerankedDocs, nRetrieved, embedCalls) ==
    IF \E i \in 1..Len(rerankedDocs) : rerankedDocs[i] = Undefined
    THEN /\ res' = Outcome("query", "error", "TypeError", embedCalls, 0, None)
         /\ qryCall' = Idle
    ELSE /\ qryCall' = [pc |-> "generate", op |-> "query", query |-> qryCall.query,
                        nRetrieved |-> nRetrieved, reranked |-> rerankedDocs,
                        prompt |-> buildPrompt(qryCall.query, Context(rerankedDocs)),
                        embedCalls |-> embedCalls]
         /\ UNCHANGED res

\* query after search has returned retrievedDocs: the guard, then rerank up to
\* its first await
Retrieved(retrievedDocs) ==
    IF Len(retrievedDocs) = 0
    THEN Throw("No documents found in vector store")
    ELSE IF config.rerankTopK >= Len(retrievedDocs)
    THEN Generate(retrievedDocs, Len(retrievedDocs), qryCall.embedCalls)
    ELSE /\ qryCall' = [pc |-> "rerankQuery", op |-> "query", query |-> qryCall.query,
                        retrieved |-> retrievedDocs, topK |-> config.rerankTopK,
                        embedCalls |-> qryCall.embedCalls + RemoteCalls(qryCall.query)]
         /\ UNCHANGED res

\* search after its await, the remote call having settled as `out`: clamp k,
\* index.search, map the labels to documents
searchSettled(out) ==
    /\ qryCall.pc = "search"
    /\   LET e == generateEmbedding(qryCall.query, out)
             k == Min(qryCall.k, Len(documents))
         IN  IF ~e.ok THEN Throw(e.error)
             ELSE IF e.value.len % StoreDimension # 0
             THEN Throw("Invalid the given array length")
             ELSE IF k > Len(index) THEN Throw("Invalid the number of k")
             ELSE \E labels \in SearchRows(index, e.value, k, e.value.len \div StoreDimension) :
                    LET results == [i \in 1..Len(labels) |->
                                      IF labels[i] <= Len(documents)
                                      THEN documents[labels[i]] ELSE Undefined]
                    IN  IF qryCall.op = "search"
                        THEN /\ res' = Outcome("search", "ok", "", qryCall.embedCalls, 0,
                                               [labels |-> labels, docs |-> results])
                             /\ qryCall' = Idle
                        ELSE Retrieved(results)
    /\ UNCHANGED <<index, documents, config, chunker, fileIndex, fileDocs, addCall>>

searchResume == \E out \in RemoteOutcomes : searchSettled(out)

\* rerank that scores and sorts whatever topK is: only the empty list returns at once
rerankAlwaysScores(q, ds, topK) ==
    IF Len(ds) = 0
    THEN /\ res' = Outcome("rerank", "ok", "", 0, 0, [docs |-> <<>>])
         /\ UNCHANGED <<index, documents, config, chunker, fileIndex, fileDocs, addCall, qryCall>>
    ELSE /\ qryCall.pc = "idle"
         /\ qryCall' = [pc |-> "rerankQuery", op |-> "rerank", query |-> q,
                        retrieved |-> ds, topK |-> topK, embedCalls |-> RemoteCalls(q)]
         /\ UNCHANGED <<index, documents, config, chunker, fileIndex, fileDocs, addCall, res>>

\* Reranker.rerank called by itself, up to its first await
rerank(q, ds, topK) ==
    IF Len(ds) = 0
    THEN /\ res' = Outcome("rerank", "ok", "", 0, 0, [docs |-> <<>>])
         /\ UNCHANGED <<index, documents, config, chunker, fileIndex, fileDocs, addCall, qryCall>>
    ELSE IF topK >= Len(ds)
    THEN /\ res' = Outcome("rerank", "ok", "", 0, 0, [docs |-> ds])
         /\ UNCHANGED <<index, documents, config, chunker, fileIndex, fileDocs, addCall, qryCall>>
    ELSE /\ qryCall.pc = "idle"
         /\ qryCall' = [pc |-> "rerankQuery", op |-> "rerank", query |-> q,
                        retrieved |-> ds, topK |-> topK, embedCalls |-> RemoteCalls(q)]
         /\ UNCHANGED <<index, documents, config, chunker, fileIndex, fileDocs, addCall, res>>

\* Reranker.getTopDocuments, up to its first await
getTopDocuments(q, ds, topK) ==
    IF Len(ds) = 0
    THEN /\ res' = Outcome("top", "ok", "", 0, 0, [scored |-> <<>>])
         /\ UNCHANGED <<index, documents, config, chunker, fileIndex, fileDocs, addCall, qryCall>>
    ELSE /\ qryCall.pc = "idle"
         /\ qryCall' = [pc |-> "rerankQuery", op |-> "top", query |-> q,
                        retrieved |-> ds, topK |-> topK, embedCalls |-> RemoteCalls(q)]
         /\ UNCHANGED <<index, documents, config, chunker, fileIndex, fileDocs, addCall, res>>

\* rerank after the call for the query embedding has settled as `out`: one
\* embedding call per document
rerankQuerySettled(out) ==
    /\ qryCall.pc = "rerankQuery"
    /\   LET e == generateEmbedding(qryCall.query, out)
         IN  IF ~e.ok THEN Throw(e.error)
             ELSE /\ qryCall' = [pc |-> "rerankDocs", op |-> qryCall.op, query |-> qryCall.query,
                                 retrieved |-> qryCall.retrieved, topK |-> qryCall.topK,
                                 queryEmbedding |-> e.value,
                                 embedCalls |-> qryCall.embedCalls
                                     + SumCalls([i \in 1..Len(qryCall.retrieved) |->
                                                   IF qryCall.retrieved[i] = Undefined THEN Empty
                                                   ELSE qryCall.retrieved[i].content])]
                  /\ UNCHANGED res
    /\ UNCHANGED <<index, documents, config, chunker, fileIndex, fileDocs, addCall>>

rerankResume == \E out \in RemoteOutcomes : rerankQuerySettled(out)

\* one callback of rerank's documents.map
ScoreCall(queryEmbedding, doc, out) ==
    IF doc = Undefined THEN Rejected("TypeError")
    ELSE LET e == generateEmbedding(doc.content, out)
         IN  IF e.ok /\ e.value.len # queryEmbedding.len
             THEN Rejected("Embeddings must have the same dimension")
             ELSE e

\* Promise.all over the callbacks, the remote calls having settled as `outs`
ScoreAll(outs) ==
    PromiseAll([i \in 1..Len(qryCall.retrieved) |->
                  ScoreCall(qryCall.queryEmbedding, qryCall.retrieved[i], outs[i])])

\* rerank after Promise.all over the documents has settled as r, then query up
\* to the call of the generation service
rerankSettled(r) ==
    /\ qryCall.pc = "rerankDocs"
    /\   IF ~r.ok THEN Throw(r.error)
         ELSE IF qryCall.op = "query"
         THEN Generate(Rerank(qryCall.queryEmbedding, qryCall.retrieved, r.value,
                              qryCall.topK),
                       Len(qryCall.retrieved), qryCall.embedCalls)
         ELSE /\ res' = Outcome(qryCall.op, "ok", "", qryCall.embedCalls, 0,
                                IF qryCall.op = "rerank"
                                THEN [docs |-> Rerank(qryCall.queryEmbedding, qryCall.retrieved,
                                                      r.value, qryCall.topK)]
                                ELSE [scored |-> TopScored(qryCall.queryEmbedding,
                                                           qryCall.retrieved, r.value,
                                                           qryCall.topK)])
              /\ qryCall' = Idle
    /\ UNCHANGED <<index, documents, config, chunker, fileIndex, fileDocs, addCall>>

rerankScored ==
    /\ qryCall.pc = "rerankDocs"
    /\ \E r \in UNION {ScoreAll(outs) : outs \in RemoteRuns(Len(qryCall.retrieved))} :
         rerankSettled(r)

\* query after generateContent has settled as g: the response is returned
queryResponded(g) ==
    /\ qryCall.pc = "generate"
    /\   IF g = "fail"
         THEN res' = Outcome("query", "error", "generateContent failed", qryCall.embedCalls, 1, None)
         ELSE res' = Outcome("query", "ok", "", qryCall.embedCalls, 1,
                             [question |-> qryCall.query, answer |-> Answer,
                              sources |-> qryCall.reranked])
    /\ qryCall' = Idle
    /\ UNCHANGED <<index, documents, config, chunker, fileIndex, fileDocs, addCall>>

queryRespond == \E g \in GenerationOutcomes : queryResponded(g)

(***************************************************************************)
(* chunkText, followed window by window.                                   *)
(***************************************************************************)
DEFAULT_CHUNK_SIZE == 1000
DEFAULT_OVERLAP == 200

Alphabet == <<"a", "b", "c", "d", "e", "f", "g", "h">>

\* a chunkSize above the default overlap, and a text one character longer
LongSize == DEFAULT_OVERLAP + 100
LongText == [i \in 1..(LongSize + 1) |-> Alphabet[((i - 1) % Len(Alphabet)) + 1]]

\* the texts handed to chunkText: one of every length up to MaxText, and the
\* long one
Texts == {SubSeq(Alphabet, 1, n) : n \in 0..MaxText} \cup {LongText}

ChunkSizes == (0..MaxSize) \cup {LongSize}

\* the options objects handed to chunkText: chunkSize and overlap are optional
ChunkOptions ==
    {[chunkSize |-> c, overlap |-> o] : c \in ChunkSizes, o \in 0..MaxSize}
        \cup {[chunkSize |-> c] : c \in ChunkSizes}
        \cup {[overlap |-> o] : o \in 0..MaxSize}

\* options.name || dflt: a property that is missing or 0 gives the default
OrDefault(options, name, dflt) ==
    IF name \in DOMAIN options /\ options[name] # 0 THEN options[name] ELSE dflt

Clamp(n, len) == IF n < 0 THEN 0 ELSE Min(n, len)

\* String.prototype.substring(a, b): both ends are clamped to 0..length and
\* swapped when a > b
Substring(text, a, b) ==
    LET lo == Min(Clamp(a, Len(text)), Clamp(b, Len(text)))
        hi == IF Clamp(a, Len(text)) >= Clamp(b, Len(text))
              THEN Clamp(a, Len(text)) ELSE Clamp(b, Len(text))
    IN  SubSeq(text, lo + 1, hi)

\* chunkText up to its loop: the defaults, and the text that fits one chunk
chunkText(text, options) ==
    LET chunkSize == OrDefault(options, "chunkSize", DEFAULT_CHUNK_SIZE)
        overlap == OrDefault(options, "overlap", DEFAULT_OVERLAP)
    IN  /\ chunker.pc = "idle"
        /\ IF Len(text) <= chunkSize
           THEN /\ res' = Outcome("chunkText", "ok", "", 0, 0, [chunks |-> <<text>>])
                /\ UNCHANGED chunker
           ELSE /\ chunker' = [pc |-> "loop", text |-> text, options |-> options,
                               chunkSize |-> chunkSize, overlap |-> overlap,
                               start |-> 0, chunks |-> <<>>]
                /\ UNCHANGED res
        /\ UNCHANGED <<index, documents, config, fileIndex, fileDocs, addCall, qryCall>>

\* one test of `while (start < text.length)`: one more window, or the return
chunkLoop ==
    /\ chunker.pc = "loop"
    /\ IF chunker.start < Len(chunker.text)
       THEN /\ Len(chunker.chunks) < MaxWindows
            /\ LET end == Min(chunker.start + chunker.chunkSize, Len(chunker.text))
               IN  chunker' = [chunker EXCEPT
                                 !.chunks = Append(@, Substring(chunker.text, chunker.start, end)),
                                 !.start = @ + chunker.chunkSize - chunker.overlap]
            /\ UNCHANGED res
       ELSE /\ res' = Outcome("chunkText", "ok", "", 0, 0, [chunks |-> chunker.chunks])
            /\ chunker' = Idle
    /\ UNCHANGED <<index, documents, config, fileIndex, fileDocs, addCall, qryCall>>

(***************************************************************************)
(* chunkBySentences, chunkByParagraphs, chunkWithMetadata.                 *)
(***************************************************************************)
Terminators == {".", "!", "?"}

\* the number of leading characters of t that are sentence terminators
RECURSIVE LeadingTerms(_)
LeadingTerms(t) ==
    IF t = <<>> \/ Head(t) \notin Terminators THEN 0 ELSE 1 + LeadingTerms(Tail(t))

\* the number of leading characters of t that are not sentence terminators
RECURSIVE LeadingOthers(_)
LeadingOthers(t) ==
    IF t = <<>> \/ Head(t) \in Terminators THEN 0 ELSE 1 + LeadingOthers(Tail(t))

\* text.match(/[^.!?]+[.!?]+/g): the matches from left to right (none: <<>>)
RECURSIVE MatchSentences(_)
MatchSentences(t) ==
    LET body == LeadingOthers(t)
        stop == LeadingTerms(SubSeq(t, body + 1, Len(t)))
    IN  IF t = <<>> THEN <<>>
        ELSE IF body = 0 THEN MatchSentences(Tail(t))
        ELSE IF stop = 0 THEN <<>>
        ELSE <<SubSeq(t, 1, body + stop)>>
                 \o MatchSentences(SubSeq(t, body + stop + 1, Len(t)))

\* `if (currentChunk) chunks.push(currentChunk.trim())`
PushTrimmed(chunks, currentChunk) ==
    IF currentChunk # <<>> THEN Append(chunks, Trim(currentChunk)) ELSE chunks

\* the for loop of chunkBySentences and the push after it
RECURSIVE SentenceLoop(_, _, _, _)
SentenceLoop(sentences, chunks, currentChunk, chunkSize) ==
    IF sentences = <<>> THEN PushTrimmed(chunks, currentChunk)
    ELSE IF Len(currentChunk) + Len(Head(sentences)) <= chunkSize
    THEN SentenceLoop(Tail(sentences), chunks, currentChunk \o Head(sentences), chunkSize)
    ELSE SentenceLoop(Tail(sentences), PushTrimmed(chunks, currentChunk),
                      Head(sentences), chunkSize)

\* what chunkBySentences returns
SentenceChunks(text, options) ==
    LET chunkSize == OrDefault(options, "chunkSize", DEFAULT_CHUNK_SIZE)
        matches == MatchSentences(text)
        sentences == IF matches = <<>> THEN <<text>> ELSE matches
    IN  SentenceLoop(sentences, <<>>, <<>>, chunkSize)

RECURSIVE DropNewlines(_)
DropNewlines(t) ==
    IF t # <<>> /\ Head(t) = "\n" THEN DropNewlines(Tail(t)) ELSE t

\* text.split(/\n\n+/), `piece` being the piece collected so far
RECURSIVE SplitParagraphs(_, _)
SplitParagraphs(t, piece) ==
    IF t = <<>> THEN <<piece>>
    ELSE IF Len(t) >= 2 /\ t[1] = "\n" /\ t[2] = "\n"
    THEN <<piece>> \o SplitParagraphs(DropNewlines(t), <<>>)
    ELSE SplitParagraphs(Tail(t), Append(piece, Head(t)))

NotBlankPiece(p) == Len(Trim(p)) > 0

\* the for loop of chunkByParagraphs and the push after it
RECURSIVE ParagraphLoop(_, _, _, _)
ParagraphLoop(paragraphs, chunks, currentChunk, chunkSize) ==
    IF paragraphs = <<>> THEN PushTrimmed(chunks, currentChunk)
    ELSE IF Len(currentChunk) + 2 + Len(Head(paragraphs)) <= chunkSize
    THEN ParagraphLoop(Tail(paragraphs), chunks,
                       (IF currentChunk # <<>> THEN currentChunk \o <<"\n", "\n">>
                        ELSE <<>>) \o Head(paragraphs),
                       chunkSize)
    ELSE ParagraphLoop(Tail(paragraphs), PushTrimmed(chunks, currentChunk),
                       Head(paragraphs), chunkSize)

\* what chunkByParagraphs returns
ParagraphChunks(text, options) ==
    LET chunkSize == OrDefault(options, "chunkSize", DEFAULT_CHUNK_SIZE)
        paragraphs == SelectSeq(SplitParagraphs(text, <<>>), NotBlankPiece)
    IN  ParagraphLoop(paragraphs, <<>>, <<>>, chunkSize)

\* { ...metadata, chunkIndex: index, totalChunks: chunks.length }
ChunkMetadata(metadata, idx, total) ==
    [key \in DOMAIN metadata \cup {"chunkIndex", "totalChunks"} |->
        IF key = "chunkIndex" THEN Num(idx)
        ELSE IF key = "totalChunks" THEN Num(total)
        ELSE metadata[key]]

\* what chunkWithMetadata returns
MetadataChunks(text, metadata, options) ==
    LET chunks == ParagraphChunks(text, options)
    IN  [i \in 1..Len(chunks) |->
           [text |-> chunks[i],
            metadata |-> ChunkMetadata(metadata, i - 1, Len(chunks))]]

\* the three chunkers run to their return in one piece; the outcome keeps the
\* text they were called with
chunkBySentences(text, options) ==
    /\ chunker.pc = "idle"
    /\ res' = Outcome("chunkBySentences", "ok", "", 0, 0,
                      [text |-> text, chunks |-> SentenceChunks(text, options)])
    /\ UNCHANGED <<index, documents, config, chunker, fileIndex, fileDocs, addCall, qryCall>>

chunkByParagraphs(text, options) ==
    /\ chunker.pc = "idle"
    /\ res' = Outcome("chunkByParagraphs", "ok", "", 0, 0,
                      [text |-> text, chunks |-> ParagraphChunks(text, options)])
    /\ UNCHANGED <<index, documents, config, chunker, fileIndex, fileDocs, addCall, qryCall>>

chunkWithMetadata(text, metadata, options) ==
    /\ chunker.pc = "idle"
    /\ res' = Outcome("chunkWithMetadata", "ok", "", 0, 0,
                      [text |-> text, chunks |-> MetadataChunks(text, metadata, options)])
    /\ UNCHANGED <<index, documents, config, chunker, fileIndex, fileDocs, addCall, qryCall>>

(***************************************************************************)
(* The system: one FAISSVectorStore behind one RAGSystem.                  *)
(***************************************************************************)
\* the configurations tried: rerank has to choose one of two candidates, or
\* returns all it is given
Configs == {[topK |-> 2, rerankTopK |-> 1], [topK |-> 2, rerankTopK |-> 2]}

\* the defaults of the RAGSystem constructor
DefaultTopK == 10
DefaultRerankTopK == 3

InitStore ==
    /\ index = <<>>
    /\ documents = <<>>
    /\ fileIndex = Missing
    /\ fileDocs = Missing
    /\ addCall = Idle
    /\ qryCall = Idle
    /\ chunker = Idle
    /\ res = [op |-> "none", status |-> "ok", error |-> "",
              embedCalls |-> 0, genCalls |-> 0, value |-> None]

\* a FAISSVectorStore used through its own methods and through indexDocuments
Init ==
    /\ config = [topK |-> DefaultTopK, rerankTopK |-> DefaultRerankTopK]
    /\ InitStore

Next ==
    \/ \E ds \in Batches({DocSky, DocNaN}) : addDocuments(ds)
    \/ \E ds \in Batches({DocSky, DocNaN}) : indexDocuments(ds)
    \/ addDocumentsResume
    \/ clear
    \/ saveIndex
    \/ loadIndex
    \/ \E q \in Queries : \E k \in Ks : search(q, k, "search")
    \/ searchResume

Spec == Init /\ [][Next]_vars

\* a RAGSystem used through its methods, by a caller that has one index or query
\* call in flight at a time (clear, save and load run at any time)
InitRag ==
    /\ config \in Configs
    /\ InitStore

NextRag ==
    \/ \E ds \in Batches({DocSky, DocSea}) : qryCall.pc = "idle" /\ indexDocuments(ds)
    \/ addDocumentsResume
    \/ clear
    \/ saveIndex
    \/ loadIndex
    \/ \E q \in Queries : addCall.pc = "idle" /\ query(q)
    \/ searchResume
    \/ rerankResume
    \/ rerankScored
    \/ queryRespond

SpecRag == InitRag /\ [][NextRag]_vars

\* a remote call awaited by the call in flight never answers: the promise never
\* settles, and nothing in the code ends the wait
remoteNeverAnswers ==
    /\ \/ /\ addCall.pc = "await"
          /\ addCall' = [addCall EXCEPT !.pc = "pending"]
          /\ UNCHANGED qryCall
       \/ /\ qryCall.pc \in {"search", "rerankQuery", "rerankDocs", "generate"}
          /\ qryCall' = [qryCall EXCEPT !.pc = "pending"]
          /\ UNCHANGED addCall
    /\ UNCHANGED <<index, documents, config, chunker, fileIndex, fileDocs, res>>

\* the index and query calls of a RAGSystem, one in flight at a time, with
\* remote calls that answer or never answer
NextLive ==
    \/ \E ds \in Batches({DocSky, DocSea}) : qryCall.pc = "idle" /\ indexDocuments(ds)
    \/ addDocumentsResume
    \/ \E q \in Queries : addCall.pc = "idle" /\ query(q)
    \/ searchResume
    \/ rerankResume
    \/ rerankScored
    \/ queryRespond
    \/ remoteNeverAnswers

\* the continuation of an await runs once its promise has settled
SpecLive ==
    /\ InitRag
    /\ [][NextLive]_vars
    /\ WF_vars(addDocumentsResume)
    /\ WF_vars(searchResume)
    /\ WF_vars(rerankResume)
    /\ WF_vars(rerankScored)
    /\ WF_vars(queryRespond)

\* what the remote model can answer a query with, an array of twice the
\* dimension included
QueryOutcomes == RemoteOutcomes \cup {"double"}

\* a FAISSVectorStore whose model answers with arrays of any of these lengths
NextLengths ==
    \/ \E ds \in Batches({DocSky, DocSea}) : addDocuments(ds)
    \/ addDocumentsResume
    \/ clear
    \/ \E q \in Queries : \E k \in Ks : search(q, k, "search")
    \/ \E out \in QueryOutcomes : searchSettled(out)

SpecLengths == Init /\ [][NextLengths]_vars

\* every text of up to n characters over the characters of S
TextsOver(S, n) == UNION {[1..k -> S] : k \in 0..n}

\* the texts handed to chunkBySentences, and to the two paragraph chunkers
SentenceTexts == TextsOver({"a", " ", "."}, MaxPara)
ParagraphTexts == TextsOver({"a", " ", "\n"}, MaxPara)

\* the options handed to them: the overlap is read and never used
SizeOptions == {[chunkSize |-> c] : c \in 0..MaxSize}

\* the metadata handed to chunkWithMetadata
BaseMetadata ==
    {[source |-> Str("a.pdf")], [source |-> Str("a.pdf"), chunkIndex |-> Num(7)]}

\* the chunkers called with every text and every options object
NextChunk ==
    \/ \E text \in Texts : \E options \in ChunkOptions : chunkText(text, options)
    \/ chunkLoop
    \/ \E text \in SentenceTexts : \E options \in SizeOptions :
          chunkBySentences(text, options)
    \/ \E text \in ParagraphTexts : \E options \in SizeOptions :
          chunkByParagraphs(text, options)
    \/ \E text \in ParagraphTexts : \E metadata \in BaseMetadata :
          \E options \in SizeOptions : chunkWithMetadata(text, metadata, options)

SpecChunk == Init /\ [][NextChunk]_vars

\* the config objects handed to `new RAGSystem(config)`: topK and rerankTopK
\* are optional properties
ConstructorArgs ==
    {[geminiApiKey |-> "key"],
     [geminiApiKey |-> "key", topK |-> 2],
     [geminiApiKey |-> "key", topK |-> 2, rerankTopK |-> 1]}

\* this.config = { ...defaultConfig, ...config }
MergedConfig(cfg) ==
    [topK |-> IF "topK" \in DOMAIN cfg THEN cfg.topK ELSE DefaultTopK,
     rerankTopK |-> IF "rerankTopK" \in DOMAIN cfg THEN cfg.rerankTopK
                    ELSE DefaultRerankTopK]

\* a RAGSystem as its constructor leaves it, used as under SpecRag
InitConstructed ==
    /\ \E cfg \in ConstructorArgs : config = MergedConfig(cfg)
    /\ InitStore

SpecConstructed == InitConstructed /\ [][NextRag]_vars

\* the candidate lists handed to the Reranker: up to MaxCands different documents
CandidateDocs == {DocSky, DocSea, DocNaN}

Candidates ==
    {ds \in UNION {[1..n -> CandidateDocs] : n \in 0..MaxCands} : Injective(ds)}

TopKs == 0..MaxCands

\* a Reranker called by itself, one call in flight at a time
NextRerank ==
    \/ \E q \in Queries : \E ds \in Candidates : \E k \in TopKs :
         qryCall.pc = "idle" /\ rerank(q, ds, k)
    \/ \E q \in Queries : \E ds \in Candidates : \E k \in TopKs :
         qryCall.pc = "idle" /\ getTopDocuments(q, ds, k)
    \/ rerankResume
    \/ rerankScored

SpecRerank == Init /\ [][NextRerank]_vars

(***************************************************************************)
(* Two callers of addDocuments on one store.  Each caller makes one call;   *)
(* the second call is made while the first waits for its embeddings, and    *)
(* clear runs at any time.  addCall[c] is the promise of caller c: not yet  *)
(* made ("idle"), waiting ("await"), "fulfilled" or "rejected".             *)
(***************************************************************************)
Callers == {1, 2}

\* the documents a caller adds; those of caller 1 include a blank one
OwnDocs(c) == IF c = 1 THEN {DocSky, DocSea, DocBlank} ELSE {DocNaN, DocQSky}

OverlapBatches(c) == {b \in Batches(OwnDocs(c)) : Len(b) <= MaxBatch}

\* addDocuments called by caller c, up to its await
addDocumentsBy(c, ds) ==
    /\ addCall[c].pc = "idle"
    /\ IF Len(ds) = 0
       THEN /\ res' = Outcome("add", "error", "Documents array cannot be empty", 0, 0, None)
            /\ addCall' = [addCall EXCEPT ![c] = [pc |-> "rejected", docs |-> ds]]
       ELSE /\ addCall' = [addCall EXCEPT ![c] = [pc |-> "await", docs |-> ds,
                                                 embedCalls |-> SumCalls(Contents(ds))]]
            /\ UNCHANGED res
    /\ UNCHANGED <<index, documents, config, chunker, fileIndex, fileDocs, qryCall>>

\* the call of caller c after its await, generateEmbeddings having settled as r
addSettledBy(c, r) ==
    /\ addCall[c].pc = "await"
    /\ IF ~r.ok
       THEN /\ res' = Outcome("add", "error", r.error, addCall[c].embedCalls, 0, None)
            /\ addCall' = [addCall EXCEPT ![c] = [pc |-> "rejected", docs |-> addCall[c].docs]]
            /\ UNCHANGED <<index, documents>>
       ELSE LET a == AppendLoop(r.value, addCall[c].docs)
            IN  /\ index' = a.index
                /\ documents' = a.documents
                /\ res' = IF a.stop = 0
                          THEN Outcome("add", "ok", "", addCall[c].embedCalls, 0, None)
                          ELSE Outcome("add", "error", "Invalid embedding dimension at index",
                                       addCall[c].embedCalls, 0, [at |-> a.stop])
                /\ addCall' = [addCall EXCEPT ![c] =
                                  [pc |-> IF a.stop = 0 THEN "fulfilled" ELSE "rejected",
                                   docs |-> addCall[c].docs]]
    /\ UNCHANGED <<config, chunker, fileIndex, fileDocs, qryCall>>

addResumeBy(c) ==
    /\ addCall[c].pc = "await"
    /\ \E r \in generateEmbeddings(Contents(addCall[c].docs)) : addSettledBy(c, r)

InitOverlap ==
    /\ config = [topK |-> DefaultTopK, rerankTopK |-> DefaultRerankTopK]
    /\ index = <<>>
    /\ documents = <<>>
    /\ fileIndex = Missing
    /\ fileDocs = Missing
    /\ addCall = [c \in Callers |-> Idle]
    /\ qryCall = Idle
    /\ chunker = Idle
    /\ res = [op |-> "none", status |-> "ok", error |-> "",
              embedCalls |-> 0, genCalls |-> 0, value |-> None]

NextOverlap ==
    \/ \E ds \in OverlapBatches(1) : addDocumentsBy(1, ds)
    \/ \E ds \in OverlapBatches(2) : addCall[1].pc = "await" /\ addDocumentsBy(2, ds)
    \/ \E c \in Callers : addResumeBy(c)
    \/ clear

SpecOverlap == InitOverlap /\ [][NextOverlap]_vars

(***************************************************************************)
(* Properties of the vector store (Spec).                                  *)
(***************************************************************************)
\* the embedding of a document: what the embedding model returns for its content
EmbeddingOf(d) == embedContent(Trim(d.content))

DimensionError == "Invalid embedding dimension at index"

\* C1: after any sequence of add, clear and load calls, failed ones included,
\* the index holds as many vectors as the list holds documents, and the vector
\* at ordinal i is the embedding of the document at ordinal i.
C1_VectorsPairDocuments ==
    /\ Len(index) = Len(documents)
    /\ \A i \in 1..Len(documents) : index[i] = EmbeddingOf(documents[i])

\* C2: an add that fails because the embedding at some position has the wrong
\* dimension appends nothing: the vectors and the documents are those held
\* before the call, also for the positions before the offending one.
C2_FailedAddAppendsNothing ==
    [][(addDocumentsResume /\ res'.error = DimensionError) => store' = store]_vars

\* C3: a load that fails because one of the two artifacts is missing or
\* unparseable leaves the index structure and the document list as they were.
C3_FailedLoadKeepsState ==
    [][(loadIndex /\ res'.status = "error") => store' = store]_vars

\* the batch of the add that failed last is in the store up to the offending
\* position, and nothing has completed since
PartlyAppended ==
    /\ res.op = "add"
    /\ res.error = DimensionError
    /\ res.value.at > 1

\* C4: under every interleaving of add, clear and load with search and save,
\* no save and no search (the part of it that reads the store) runs in a state
\* in which the vector count differs from the document count or in which the
\* batch of one add is only partly appended.
C4_ReadersSeeWholeBatches ==
    [][(saveIndex \/ searchResume)
          => (Len(index) = Len(documents) /\ ~PartlyAppended)]_vars

\* C5: a load that follows a successful save of the store succeeds and yields
\* the saved store: as many documents, equal in id, content and metadata and in
\* the saved order, over the saved vectors (so that every search answers as it
\* did on the saved store).
C5_SaveThenLoadRestores ==
    [][(loadIndex /\ res.op = "save" /\ res.status = "ok")
          => /\ res'.status = "ok"
             /\ index' = index
             /\ Len(documents') = Len(documents)
             /\ \A i \in 1..Len(documents) : documents'[i] = documents[i]]_vars

\* C6: index and add called with an empty sequence fail with the error of an
\* invalid input, issue no embedding call (none counted, and no call to
\* generateEmbeddings left in flight) and leave the vectors and the documents
\* unchanged.
C6_EmptyBatchRejected ==
    [][(addDocuments(<<>>) \/ indexDocuments(<<>>))
          => /\ res'.status = "error"
             /\ res'.op \in {"add", "index"}
             /\ res'.error \in {"Documents array cannot be empty", "No documents provided"}
             /\ res'.embedCalls = 0
             /\ addCall' = addCall
             /\ store' = store]_vars

\* an empty batch was rejected by indexDocuments while the store held a document
C6_Witness ==
    /\ res.op = "index"
    /\ res.error = "No documents provided"
    /\ Len(documents) >= 1
    /\ addCall.pc = "idle"

\* a search through the store's own method has just returned its documents
SearchReturns ==
    /\ searchResume
    /\ qryCall.op = "search"
    /\ res'.op = "search"
    /\ res'.status = "ok"

\* C8: a successful search(query, k) with k > 0 on a store of n >= 1 documents
\* returns exactly min(k, n) documents, each of them a stored document, none of
\* them (no ordinal of the store) twice.
C8_SearchReturnsMinKN ==
    [][(SearchReturns /\ Len(documents) >= 1)
          => LET docs == res'.value.docs
             IN  /\ Len(docs) = Min(qryCall.k, Len(documents))
                 /\ \A i \in 1..Len(docs) : \E j \in 1..Len(documents) : docs[i] = documents[j]
                 /\ Injective(res'.value.labels)]_vars

\* C9: search returns documents nearest first by the L2 distance between the
\* document's embedding and the query's embedding: the distances do not
\* decrease along the result, and no stored document that is left out is
\* strictly nearer than a returned one.
C9_SearchNearestFirst ==
    [][SearchReturns
          => LET docs == res'.value.docs
                 labels == res'.value.labels
                 qv == embedContent(Trim(qryCall.query))
                 Dist(d) == SqDist(EmbeddingOf(d), qv)
             IN  /\ \A i \in 1..Len(docs) : docs[i] # Undefined
                 /\ \A i \in 1..Len(docs) : \A j \in 1..Len(docs) :
                       i < j => Dist(docs[i]) <= Dist(docs[j])
                 /\ \A o \in 1..Len(documents) :
                       (\A i \in 1..Len(labels) : labels[i] # o)
                           => \A i \in 1..Len(docs) : Dist(docs[i]) <= Dist(documents[o])]_vars

(***************************************************************************)
(* Properties of the query pipeline (SpecRag).                             *)
(***************************************************************************)
\* a query or a search is called while the document list is empty
CalledOnEmptyStore(q) ==
    /\ Len(documents) = 0
    /\ \/ query(q)
       \/ \E k \in Ks : search(q, k, "search")

\* the call failed at once: no embedding call and no generation call was issued
\* and none is in flight, and the store is as it was
FailedAtOnce ==
    /\ res'.status = "error"
    /\ res'.embedCalls = 0
    /\ res'.genCalls = 0
    /\ qryCall' = qryCall
    /\ store' = store

\* C7: query on a RAGSystem whose document count is 0, and search on an empty
\* store, fail with the error of an empty store before any embedding call and
\* any generation call is issued.
C7_EmptyStoreError ==
    [][\A q \in Queries :
          CalledOnEmptyStore(q)
              => (FailedAtOnce /\ res'.error = "Vector store is empty")]_vars

\* C7, amended: on an empty store both calls fail before any embedding call and
\* any generation call is issued, with the error of an empty store when the
\* question is not blank and with the error of an invalid input when it is.
C7_EmptyStoreFailsFast ==
    [][\A q \in Queries :
          CalledOnEmptyStore(q)
              => /\ FailedAtOnce
                 /\ res'.error = IF IsBlank(q) THEN "Query cannot be empty"
                                 ELSE "Vector store is empty"]_vars

\* a query was rejected for the empty store, at a time when the document list
\* saved on disk is not empty
C7_Witness ==
    /\ res.op = "query"
    /\ res.error = "Vector store is empty"
    /\ res.embedCalls = 0
    /\ Len(documents) = 0
    /\ fileDocs.file = "ok"
    /\ Len(fileDocs.data) >= 1
    /\ qryCall.pc = "idle"

\* C10: a successful query returns the question passed in and, as sources, the
\* documents the rerank stage returned, in its order, min(rerankTopK, number of
\* retrieved candidates) of them; the prompt given to the generation service
\* holds the question and the content of exactly these documents, the i-th one
\* labelled [Document i].
C10_ResponseCarriesReranked ==
    [][(queryRespond /\ res'.op = "query" /\ res'.status = "ok")
          => LET r == res'.value
                 prompt == qryCall.prompt
             IN  /\ r.question = qryCall.query
                 /\ r.sources = qryCall.reranked
                 /\ Len(r.sources) = Min(config.rerankTopK, qryCall.nRetrieved)
                 /\ prompt.question = qryCall.query
                 /\ Len(prompt.context) = Len(r.sources)
                 /\ \A i \in 1..Len(r.sources) :
                       prompt.context[i] = [label |-> i, content |-> r.sources[i].content]]_vars

\* a query answered from one source out of two candidates: the one rerank put
\* first, which is not the one the L2 search put first
C10_Witness ==
    /\ res.op = "query"
    /\ res.status = "ok"
    /\ config.topK = 2
    /\ config.rerankTopK = 1
    /\ Len(documents) = 2
    /\ res.value.sources = <<DocSea>>
    /\ res.value.question = QSky
    /\ res.genCalls = 1


(***************************************************************************)
(* Properties of the Reranker called by itself (SpecRerank).               *)
(***************************************************************************)
\* the cosine score of document d for query q, from the embeddings of both
ScoreOf(q, d) == cosineSimilarity(embedContent(Trim(q)), EmbeddingOf(d))

Range(f) == {f[i] : i \in DOMAIN f}

\* C11: rerank called with topK at least the number of candidates returns the
\* candidates unchanged and in their order, at once and without failing.
C11_RerankReturnsAllUnchanged ==
    [][\A q \in Queries : \A ds \in Candidates : \A k \in TopKs :
         (k >= Len(ds) /\ rerank(q, ds, k)) =>
             /\ res'.op = "rerank"
             /\ res'.status = "ok"
             /\ res'.value.docs = ds
             /\ qryCall' = qryCall]_vars

\* rerank has returned two candidates in their own order, the lower score
\* first, without any embedding call
C11_Witness ==
    /\ res.op = "rerank"
    /\ res.status = "ok"
    /\ res.embedCalls = 0
    /\ res.value.docs = <<DocSky, DocSea>>
    /\ ScoreLess(ScoreOf(QSky, DocSky), ScoreOf(QSky, DocSea))

\* C12: rerank called with 0 < topK < number of candidates returns exactly topK
\* documents, each one of the candidates, in non-increasing order of score, and
\* no candidate left out scores higher than a returned one.
C12_RerankKeepsBestTopK ==
    [][(/\ qryCall.pc = "rerankDocs"
        /\ qryCall.op = "rerank"
        /\ 0 < qryCall.topK
        /\ qryCall.topK < Len(qryCall.retrieved)
        /\ res'.status = "ok"
        /\ rerankScored) =>
           LET cands == qryCall.retrieved
               k == qryCall.topK
               docs == res'.value.docs
               s(d) == ScoreOf(qryCall.query, d)
           IN  /\ Len(docs) = k
               /\ \E pick \in [1..k -> 1..Len(cands)] :
                     /\ Injective(pick)
                     /\ \A i \in 1..k : docs[i] = cands[pick[i]]
                     /\ \A o \in (1..Len(cands)) \ Range(pick) :
                          \A i \in 1..k : ~ScoreLess(s(docs[i]), s(cands[o]))
               /\ \A i, j \in 1..k : i < j => ~ScoreLess(s(docs[i]), s(docs[j]))]_vars

\* rerank has scored three candidates and returned the best two, which tie
C12_Witness ==
    /\ res.op = "rerank"
    /\ res.status = "ok"
    /\ res.embedCalls = 4
    /\ res.value.docs = <<DocSea, DocNaN>>

DocsOf(scored) == [i \in DOMAIN scored |-> scored[i].document]

\* the documents getTopDocuments returns for q, ds and k when its calls succeed
TopDocumentsOf(q, ds, k) ==
    DocsOf(TopScored(embedContent(Trim(q)), ds,
                     [i \in 1..Len(ds) |-> EmbeddingOf(ds[i])], k))

\* C13: what rerank returns for a query, a candidate list and topK is, document
\* by document and in order, what getTopDocuments returns for the same inputs,
\* also when topK is at least the number of candidates.
C13_TopDocumentsMatchRerank ==
    [][/\ \A ds \in Candidates : \A k \in TopKs :
            (k >= Len(ds) /\ rerank(QSky, ds, k)) =>
                res'.value.docs = TopDocumentsOf(QSky, ds, k)
       /\ (qryCall.pc = "rerankDocs" /\ qryCall.op = "rerank" /\ res'.status = "ok"
              /\ rerankScored) =>
                res'.value.docs = TopDocumentsOf(qryCall.query, qryCall.retrieved,
                                                 qryCall.topK)]_vars

(***************************************************************************)
(* More properties of the vector store (Spec).                             *)
(***************************************************************************)
\* C17: after any sequence of ingestions, the same source file ingested twice
\* without a clear in between included, no two stored documents share an id.
C17_DocumentIdsUnique ==
    \A i, j \in 1..Len(documents) : documents[i].id = documents[j].id => i = j

\* C19: a load succeeds only when both artifacts are present and hold the same
\* number of entries; when the index file and the document list differ in
\* count the load fails and installs nothing.
C19_LoadChecksConsistency ==
    [][loadIndex =>
         /\ res'.status = "ok" => (fileIndex.file = "ok" /\ fileDocs.file = "ok")
         /\ (/\ fileIndex.file = "ok"
             /\ fileDocs.file = "ok"
             /\ Len(IndexRead(fileIndex)) # Len(fileDocs.data)) =>
                (res'.status = "error" /\ store' = store)]_vars

(***************************************************************************)
(* Failures of the remote calls during a query (SpecRag).                  *)
(***************************************************************************)
\* the query in flight ends with the error e: no response, nothing in flight,
\* the store as it was
QueryFailsWith(e) ==
    /\ res'.op = "query"
    /\ res'.status = "error"
    /\ res'.error = e
    /\ res'.value = None
    /\ qryCall' = Idle
    /\ store' = store

\* C14: when the embedding call of the retrieval step, an embedding call of the
\* reranking step or the generation call fails during a query, the query
\* fails with that error unchanged: no response is returned, nothing is put in
\* its place, and the stored vectors and documents are unchanged.
C14_RemoteFailureFailsQuery ==
    [][qryCall' # qryCall =>
       /\ qryCall.pc = "search" /\ qryCall.op = "query" =>
            \A out \in RemoteOutcomes :
               LET e == generateEmbedding(qryCall.query, out)
               IN  (~e.ok /\ searchSettled(out)) => QueryFailsWith(e.error)
       /\ qryCall.pc = "rerankQuery" /\ qryCall.op = "query" =>
            \A out \in RemoteOutcomes :
               LET e == generateEmbedding(qryCall.query, out)
               IN  (~e.ok /\ rerankQuerySettled(out)) => QueryFailsWith(e.error)
       /\ qryCall.pc = "rerankDocs" /\ qryCall.op = "query" =>
            \A i \in 1..Len(qryCall.retrieved) : \A out \in RemoteOutcomes :
               LET e == ScoreCall(qryCall.queryEmbedding, qryCall.retrieved[i], out)
               IN  (~e.ok /\ rerankSettled(Rejected(e.error))) => QueryFailsWith(e.error)
       /\ qryCall.pc = "generate" =>
            (queryResponded("fail") => QueryFailsWith("generateContent failed"))]_vars

\* a query has failed in its reranking step with the error of the remote call,
\* after the retrieval step and the embedding of the query had succeeded
C14_Witness ==
    /\ res.op = "query"
    /\ res.status = "error"
    /\ res.error = "remote call failed"
    /\ res.embedCalls = 4
    /\ res.value = None
    /\ Len(documents) = 2

(***************************************************************************)
(* The configuration of a constructed RAGSystem (SpecConstructed).         *)
(***************************************************************************)
\* C15: every constructed RAGSystem holds a configuration with topK > 0 and
\* 0 < rerankTopK <= topK, and the configuration never changes afterwards.
C15_ConfigValidAndFixed ==
    /\ [](config.topK > 0 /\ 0 < config.rerankTopK /\ config.rerankTopK <= config.topK)
    /\ [][config' = config]_vars

(***************************************************************************)
(* The dimension of stored and query vectors (SpecLengths).                *)
(***************************************************************************)
\* C16: every stored vector and every query vector has exactly the dimension
\* of the store: an add with an embedding of another length and a search whose
\* query embedding has another length both fail, and no vector is padded or
\* truncated to fit.
C16_ExactDimension ==
    /\ [](\A i \in 1..Len(index) : index[i].len = StoreDimension)
    /\ [][\A out \in QueryOutcomes :
            LET e == generateEmbedding(qryCall.query, out)
            IN  (/\ qryCall.pc = "search"
                 /\ e.ok
                 /\ e.value.len # StoreDimension
                 /\ searchSettled(out)) =>
                    (res'.status = "error" /\ qryCall' = Idle /\ store' = store)]_vars

(***************************************************************************)
(* Termination of chunkText (SpecChunk).                                   *)
(***************************************************************************)
\* C20: chunkText terminates for every input: with 0 <= overlap < chunkSize it
\* returns after finitely many windows (never more windows than the text has
\* characters), and with overlap >= chunkSize the call is rejected with an
\* error instead of looping on a window that does not advance.
C20_ChunkTextTerminates ==
    /\ [][(chunker.pc = "idle" /\ (res'.op = "chunkText" \/ chunker'.pc = "loop")) =>
          \A text \in Texts : \A options \in ChunkOptions :
            (/\ DOMAIN options = {"chunkSize", "overlap"}
             /\ options.chunkSize > 0
             /\ options.overlap >= options.chunkSize
             /\ chunkText(text, options)) =>
                (res'.op = "chunkText" /\ res'.status = "error" /\ chunker' = Idle)]_vars
    /\ [][chunkLoop => (chunker'.pc = "idle" \/ chunker'.start > chunker.start)]_vars
    /\ [](chunker.pc = "loop" => Len(chunker.chunks) <= Len(chunker.text))

(***************************************************************************)
(* Completion of index and query calls (SpecLive).                         *)
(***************************************************************************)
\* C18: no operation blocks indefinitely: every index call and every query call
\* in flight eventually completes, with a result or an error, also when a
\* remote call it awaits never answers.
C18_CallsComplete ==
    /\ (addCall.pc # "idle") ~> (addCall.pc = "idle")
    /\ (qryCall.pc # "idle") ~> (qryCall.pc = "idle")

(***************************************************************************)
(* The chunks chunkText returns (SpecChunk).                               *)
(***************************************************************************)
\* chunk.slice(n): the chunk without its first n characters
Drop(chunk, n) == SubSeq(chunk, n + 1, Len(chunk))

\* the first chunk followed by every later chunk without its leading `overlap`
\* characters
RECURSIVE Reconstruct(_, _)
Reconstruct(chunks, overlap) ==
    IF Len(chunks) = 0 THEN <<>>
    ELSE IF Len(chunks) = 1 THEN chunks[1]
    ELSE Reconstruct(SubSeq(chunks, 1, Len(chunks) - 1), overlap)
             \o Drop(chunks[Len(chunks)], overlap)

\* options name a chunkSize > 0 and an overlap with 0 <= overlap < chunkSize
ValidOptions(options) ==
    /\ DOMAIN options = {"chunkSize", "overlap"}
    /\ options.chunkSize > 0
    /\ options.overlap < options.chunkSize

\* C21: for every text and every chunkSize > 0 and overlap with
\* 0 <= overlap < chunkSize, overlap = 0 included, the chunks chunkText returns,
\* each but the first without its leading `overlap` characters, concatenate to
\* the text.
C21_ChunksReconstructText ==
    [][/\ (chunker.pc = "idle" /\ chunker'.pc = "idle" /\ res'.op = "chunkText") =>
            \A text \in Texts : \A options \in ChunkOptions :
               (ValidOptions(options) /\ chunkText(text, options)) =>
                   Reconstruct(res'.value.chunks, options.overlap) = text
       /\ (/\ chunker.pc = "loop"
           /\ ValidOptions(chunker.options)
           /\ chunker'.pc = "idle"
           /\ chunkLoop) =>
                Reconstruct(res'.value.chunks, chunker.options.overlap) = chunker.text]_vars

\* C22: each chunker called with the empty text returns the empty sequence of
\* chunks: chunkText, chunkBySentences, chunkByParagraphs and chunkWithMetadata.
C22_EmptyTextNoChunks ==
    /\ []((/\ res.op \in {"chunkBySentences", "chunkByParagraphs", "chunkWithMetadata"}
           /\ res.value.text = Empty) => res.value.chunks = <<>>)
    /\ [][(chunker.pc = "idle" /\ chunker'.pc = "idle" /\ res'.op = "chunkText") =>
            \A options \in ChunkOptions :
               chunkText(Empty, options) => res'.value.chunks = <<>>]_vars

\* C23: chunkWithMetadata called with a text that is not empty, a text of
\* whitespace or blank lines only included, returns at least one chunk; chunk j
\* (from 0) carries chunkIndex = j and totalChunks = the number of chunks.
C23_MetadataChunksNumbered ==
    res.op = "chunkWithMetadata" =>
        LET chunks == res.value.chunks
        IN  /\ res.value.text # Empty => Len(chunks) >= 1
            /\ \A i \in 1..Len(chunks) :
                  /\ chunks[i].metadata.chunkIndex = Num(i - 1)
                  /\ chunks[i].metadata.totalChunks = Num(Len(chunks))

(***************************************************************************)
(* The stages of a query (SpecRag).                                        *)
(***************************************************************************)
\* the place of a stage in the order retrieve, rerank, generate
StageOf(pc) ==
    CASE pc = "search" -> 1
      [] pc = "rerankQuery" -> 2
      [] pc = "rerankDocs" -> 3
      [] pc = "generate" -> 4
      [] OTHER -> 0

\* the query in flight ends here, and the generation service has not been called
EndsBeforeGeneration ==
    /\ qryCall' = Idle
    /\ res'.op = "query"
    /\ res'.status = "error"
    /\ res'.genCalls = 0

\* C24: within a query the stages run in the order retrieve, rerank, prompt
\* build, generate, respond, each at most once and each after the one before
\* has completed; a failure in a stage ends the query without any later stage,
\* and the generation service is not called when retrieval or reranking failed.
C24_StagesInOrder ==
    [][qryCall' # qryCall =>
       /\ qryCall'.pc = "idle" \/ StageOf(qryCall'.pc) > StageOf(qryCall.pc)
       /\ qryCall'.pc = "generate" =>
            /\ res' = res
            /\ qryCall'.prompt = buildPrompt(qryCall.query, Context(qryCall'.reranked))
       /\ (res' # res /\ res'.op = "query" /\ res'.genCalls > 0) =>
            (qryCall.pc = "generate" /\ res'.genCalls = 1)
       /\ (res' # res /\ res'.op = "query" /\ res'.status = "ok") => qryCall.pc = "generate"
       /\ qryCall.pc = "search" /\ qryCall.op = "query" =>
            \A out \in RemoteOutcomes :
               (~generateEmbedding(qryCall.query, out).ok /\ searchSettled(out))
                   => EndsBeforeGeneration
       /\ qryCall.pc = "rerankQuery" /\ qryCall.op = "query" =>
            \A out \in RemoteOutcomes :
               (~generateEmbedding(qryCall.query, out).ok /\ rerankQuerySettled(out))
                   => EndsBeforeGeneration
       /\ qryCall.pc = "rerankDocs" /\ qryCall.op = "query" =>
            \A i \in 1..Len(qryCall.retrieved) : \A out \in RemoteOutcomes :
               LET e == ScoreCall(qryCall.queryEmbedding, qryCall.retrieved[i], out)
               IN  (~e.ok /\ rerankSettled(Rejected(e.error))) => EndsBeforeGeneration]_vars

\* a query has failed at the embedding of the query for reranking, after its
\* retrieval stage: two embedding calls and no generation call were made
C24_Witness ==
    /\ res.op = "query"
    /\ res.status = "error"
    /\ res.error = "remote call failed"
    /\ res.embedCalls = 2
    /\ res.genCalls = 0
    /\ qryCall = Idle

(***************************************************************************)
(* Concurrent embedding calls (SpecRag).                                   *)
(***************************************************************************)
\* C25: generateEmbeddings returns, at every position, the embedding of the
\* text at that position, and rerank scores every candidate by its own content,
\* in whatever order the remote calls issued together complete.
C25_ResultsKeepInputOrder ==
    [][/\ (addCall.pc = "await" /\ addCall' # addCall /\ res'.status = "ok") =>
            /\ Len(index') = Len(index) + Len(addCall.docs)
            /\ \A i \in 1..Len(addCall.docs) :
                  index'[Len(index) + i] = EmbeddingOf(addCall.docs[i])
       /\ (qryCall.pc = "rerankDocs" /\ qryCall' # qryCall /\ qryCall'.pc = "generate") =>
            LET cands == qryCall.retrieved
            IN  qryCall'.reranked =
                    Rerank(qryCall.queryEmbedding, cands,
                           [i \in 1..Len(cands) |-> EmbeddingOf(cands[i])],
                           qryCall.topK)]_vars

\* two documents were embedded in one batch, each vector at the place of its
\* own document, and a query has reranked them: the second one scores higher
C25_Witness ==
    /\ documents = <<DocSky, DocSea>>
    /\ index = <<EmbeddingOf(DocSky), EmbeddingOf(DocSea)>>
    /\ qryCall.pc = "generate"
    /\ qryCall.nRetrieved = 2
    /\ qryCall.reranked = <<DocSea>>

(***************************************************************************)
(* Ties in rerank (SpecRerank).                                            *)
(***************************************************************************)
\* the position of document d in the list ds (0: not there)
PositionOf(d, ds) ==
    IF \E i \in 1..Len(ds) : ds[i] = d THEN CHOOSE i \in 1..Len(ds) : ds[i] = d ELSE 0

\* C26: rerank is stable on ties: of two candidates of equal similarity to the
\* query, with 0 < topK < number of candidates, the one that comes first among
\* the candidates comes first in the result, and is the one kept when only one
\* of the two is within topK.
C26_RerankStableOnTies ==
    [][(/\ qryCall.pc = "rerankDocs"
        /\ qryCall.op = "rerank"
        /\ 0 < qryCall.topK
        /\ qryCall.topK < Len(qryCall.retrieved)
        /\ res'.status = "ok"
        /\ rerankScored) =>
           LET cands == qryCall.retrieved
               docs == res'.value.docs
           IN  \A i, j \in 1..Len(cands) :
                  (/\ i < j
                   /\ ~ScoreLess(ScoreOf(qryCall.query, cands[i]), ScoreOf(qryCall.query, cands[j]))
                   /\ ~ScoreLess(ScoreOf(qryCall.query, cands[j]), ScoreOf(qryCall.query, cands[i]))
                   /\ PositionOf(cands[j], docs) > 0) =>
                      /\ PositionOf(cands[i], docs) > 0
                      /\ PositionOf(cands[i], docs) < PositionOf(cands[j], docs)]_vars

\* rerank has returned two candidates of equal score out of three, in the order
\* they had among the candidates
C26_Witness ==
    /\ res.op = "rerank"
    /\ res.status = "ok"
    /\ res.embedCalls = 4
    /\ res.value.docs = <<DocNaN, DocSea>>

(***************************************************************************)
(* What search returns (Spec).                                             *)
(***************************************************************************)
\* C27: every element of a search result returned without error is a Document
\* of the store's document list, never a missing entry, after any adds, clears
\* and loads, failed ones and ones that run during the search included.
C27_SearchReturnsDocuments ==
    /\ [](res.op = "search" /\ res.status = "ok" =>
             \A i \in 1..Len(res.value.docs) : res.value.docs[i] # Undefined)
    /\ [][(qryCall.pc = "search" /\ res' # res /\ res'.op = "search" /\ res'.status = "ok") =>
             \A i \in 1..Len(res'.value.docs) :
                \E j \in 1..Len(documents) : res'.value.docs[i] = documents[j]]_vars

\* a search has returned a missing entry: the index holds two different vectors,
\* the document list one document, and the vector nearest to the query is the second
SearchReturnedMissing ==
    /\ res.op = "search"
    /\ res.status = "ok"
    /\ res.value.docs = <<Undefined>>
    /\ Len(documents) = 1
    /\ Len(index) = 2
    /\ index[1] # index[2]

(***************************************************************************)
(* Add calls that overlap (SpecOverlap).                                   *)
(***************************************************************************)
EmbeddingsOf(ds) == [i \in 1..Len(ds) |-> EmbeddingOf(ds[i])]

\* caller c's call is fulfilled by this step
Fulfils(c) == addCall[c].pc = "await" /\ addCall'[c].pc = "fulfilled"

\* C28: when two add calls on one index overlap in time, each call's documents
\* are appended as one block in the order of its input, the documents of the
\* two calls are not interleaved, and every document has its own vector at its
\* ordinal.
C28_OverlappingAddsAppendBlocks ==
    /\ [][addCall' # addCall =>
            \A c \in Callers :
               Fulfils(c) =>
                  /\ documents' = documents \o addCall[c].docs
                  /\ index' = index \o EmbeddingsOf(addCall[c].docs)]_vars
    /\ []((/\ addCall[1].pc = "fulfilled"
           /\ addCall[2].pc = "fulfilled"
           /\ Len(documents) = Len(addCall[1].docs) + Len(addCall[2].docs)) =>
             /\ \/ documents = addCall[1].docs \o addCall[2].docs
                \/ documents = addCall[2].docs \o addCall[1].docs
             /\ index = EmbeddingsOf(documents))

\* the second call was made while the first waited and completed first; both
\* batches of two are in the store, the second caller's block before the first's
C28_Witness ==
    /\ addCall[1].pc = "fulfilled"
    /\ addCall[2].pc = "fulfilled"
    /\ documents = <<DocNaN, DocQSky, DocSky, DocSea>>
    /\ index = EmbeddingsOf(documents)

\* C29: a clear that runs while an add call waits for its embeddings does not
\* cancel the call: when the embeddings arrive the call appends its whole
\* batch, so the store then holds exactly that batch (count = batch size, not 0).
C29_ClearDoesNotCancelAdd ==
    [][/\ ((\E c \in Callers : addCall[c].pc = "await") /\ clear) =>
            /\ addCall' = addCall
            /\ documents' = <<>>
            /\ \A c \in Callers : addCall[c].pc = "await" => ENABLED addResumeBy(c)
       /\ (addCall' # addCall /\ documents = <<>> /\ index = <<>>) =>
            \A c \in Callers :
               Fulfils(c) =>
                  /\ documents' = addCall[c].docs
                  /\ Len(documents') = Len(addCall[c].docs)
                  /\ Len(index') = Len(addCall[c].docs)]_vars

\* the second caller's add was fulfilled while the first caller's waited, then
\* the store was cleared, then the first caller's add was fulfilled: the store
\* holds the first caller's batch of two and nothing else
C29_Witness ==
    /\ addCall[1].pc = "fulfilled"
    /\ addCall[2].pc = "fulfilled"
    /\ Len(addCall[1].docs) = 2
    /\ documents = addCall[1].docs
    /\ Len(index) = 2
    /\ res.op = "add"

\* C30: when an embedding call of an add fails (the remote call fails, its
\* response is malformed, or a document's content is empty or whitespace only)
\* the add fails and appends nothing: the document list and the index are
\* unchanged.
C30_FailedEmbeddingAppendsNothing ==
    [][addCall' # addCall =>
         \A c \in Callers :
            addCall[c].pc = "await" =>
               LET texts == Contents(addCall[c].docs)
               IN  \A outs \in RemoteRuns(Len(texts)) :
                      LET each == [i \in 1..Len(texts) |-> generateEmbedding(texts[i], outs[i])]
                      IN  (\E i \in 1..Len(texts) : ~each[i].ok) =>
                             \A r \in PromiseAll(each) :
                                addSettledBy(c, r) =>
                                   /\ store' = store
                                   /\ res'.status = "error"
                                   /\ addCall'[c].pc = "rejected"]_vars

\* the first caller's batch holds a document of blank content after a good one;
\* its add has failed, and the store holds what the second caller's add put there
C30_Witness ==
    /\ addCall[1].pc = "rejected"
    /\ addCall[1].docs = <<DocSky, DocBlank>>
    /\ res.op = "add"
    /\ res.error = "Text cannot be empty"
    /\ addCall[2].pc = "fulfilled"
    /\ documents = addCall[2].docs
    /\ index = EmbeddingsOf(documents)

=============================================================================
